---- MODULE Spec2Model ----
(***************************************************************************)
(* Model of the catalog ingestion script populate.js (src/unnamed/part_000) *)
(* : the startup credential check, fetchGoogleBooks, transformBookData and  *)
(* main, run as a sequence of processes against one Google Books source and *)
(* one Supabase `books` table.                                              *)
(***************************************************************************)
EXTENDS Integers, Sequences, FiniteSets, TLC

(***************************************************************************)
(* Bounds of the model.                                                     *)
(***************************************************************************)
\* Largest number of items the source puts in one page of the model.
MaxPageItems == 2
\* Number of processes (runs of the script) started one after the other.
MaxRuns == 2
\* Longest industryIdentifiers array given to transformBookData on its own.
MaxIds == 2
\* Longest publishedDate string given to transformBookData on its own.
MaxDateLen == 12
\* Number of auth state changes delivered to the AuthProvider listener.
MaxAuthEvents == 2
\* Number of times the arguments of useBooks change after the first render.
MaxParamChanges == 2
\* Number of rows of the books table.
TableSize == 14

(***************************************************************************)
(* Program constants.                                                       *)
(***************************************************************************)
\* part_000:108  const booksPerPage = 40
booksPerPage == 40
\* part_000:31   const maxResults = 40
maxResults == 40
\* part_000:129  setTimeout(resolve, 1000)
rateLimitDelay == 1000
\* part_000:105  totalBooksToFetch is the operator-editable target ("YOU CAN
\* CHANGE THESE VALUES"); the model runs the script with these settings.
Targets == {1, 50}

(***************************************************************************)
(* Optional values: <<>> is undefined/null, <<v>> is a present value v.     *)
(***************************************************************************)
None == <<>>
Some(v) == <<v>>
IsSome(o) == o # <<>>
Get(o) == o[1]

(***************************************************************************)
(* Strings whose characters matter (dates, categories) are sequences of     *)
(* one-character strings.                                                   *)
(***************************************************************************)
Lower(c) == CASE c = "F" -> "f"
              [] c = "S" -> "s"
              [] c = "A" -> "a"
              [] OTHER   -> c

\* String.prototype.toLowerCase
toLowerCase(s) == [k \in 1..Len(s) |-> Lower(s[k])]

\* s.split(' ')[0]: the part of s before its first space (all of s if none).
RECURSIVE splitFirst(_)
splitFirst(s) ==
    IF s = <<>> \/ Head(s) = " " THEN <<>>
    ELSE <<Head(s)>> \o splitFirst(Tail(s))

\* Array.prototype.join(', ')
RECURSIVE join(_)
join(list) ==
    IF list = <<>> THEN ""
    ELSE IF Len(list) = 1 THEN list[1]
    ELSE list[1] \o ", " \o join(Tail(list))

\* Array.prototype.find(id => id.type === t) on an optional array (?.):
\* the first entry of that type, or undefined.
RECURSIVE findFirst(_, _)
findFirst(ids, t) ==
    IF ids = <<>> THEN None
    ELSE IF Head(ids).type = t THEN Some(Head(ids))
    ELSE findFirst(Tail(ids), t)

findType(optIds, t) == IF IsSome(optIds) THEN findFirst(Get(optIds), t) ELSE None

(***************************************************************************)
(* transformBookData, part_000:53-96.                                       *)
(***************************************************************************)
DefaultDate == <<"1","9","7","0","-","0","1","-","0","1">>
DefaultDescription == "No description available."
DefaultGenre == <<"g","e","n","e","r","a","l">>

\* part_000:65  the record is skipped when this holds ('' and undefined are
\* both falsy; an empty array is truthy).
IsSkipped(vol) ==
    \/ vol.title = ""
    \/ ~IsSome(vol.authors)
    \/ (~IsSome(findType(vol.industryIdentifiers, "ISBN_13"))
        /\ ~IsSome(findType(vol.industryIdentifiers, "ISBN_10")))

\* Variant of publicationDate: > 10 for >= 10 at line 78.
publicationDateOver10(vol) ==
    LET d == vol.publishedDate IN
    IF d = <<>> THEN DefaultDate
    ELSE IF Len(d) = 4 THEN d \o <<"-","0","1","-","0","1">>
    ELSE IF Len(d) = 7 THEN d \o <<"-","0","1">>
    ELSE IF Len(d) > 10 THEN SubSeq(d, 1, 10)
    ELSE DefaultDate

\* part_000:70-81
publicationDate(vol) ==
    LET d == vol.publishedDate IN
    IF d = <<>> THEN DefaultDate
    ELSE IF Len(d) = 4 THEN d \o <<"-","0","1","-","0","1">>
    ELSE IF Len(d) = 7 THEN d \o <<"-","0","1">>
    ELSE IF Len(d) >= 10 THEN SubSeq(d, 1, 10)
    ELSE DefaultDate

\* Variant of pickIsbn: the ISBN_10 entry preferred at line 87.
pickIsbnTenFirst(vol) ==
    LET isbn13 == findType(vol.industryIdentifiers, "ISBN_13")
        isbn10 == findType(vol.industryIdentifiers, "ISBN_10")
    IN IF IsSome(isbn10) THEN Get(isbn10).identifier ELSE Get(isbn13).identifier

\* part_000:87
pickIsbn(vol) ==
    LET isbn13 == findType(vol.industryIdentifiers, "ISBN_13")
        isbn10 == findType(vol.industryIdentifiers, "ISBN_10")
    IN IF IsSome(isbn13) THEN Get(isbn13).identifier ELSE Get(isbn10).identifier

\* part_000:83-93
transformItem(vol) ==
    [ title            |-> vol.title,
      author           |-> join(Get(vol.authors)),
      isbn             |-> pickIsbn(vol),
      description      |-> IF vol.description # "" THEN vol.description
                           ELSE DefaultDescription,
      genre            |-> IF IsSome(vol.categories)
                           THEN splitFirst(toLowerCase(Get(vol.categories)[1]))
                           ELSE DefaultGenre,
      publication_date |-> publicationDate(vol),
      cover_image      |-> IF vol.thumbnail # "" THEN Some(vol.thumbnail) ELSE None ]

\* .map(...).filter(Boolean): order kept, skipped records dropped.
RECURSIVE transformBookData(_)
transformBookData(googleBooks) ==
    IF googleBooks = <<>> THEN <<>>
    ELSE (IF IsSkipped(Head(googleBooks)) THEN <<>>
          ELSE <<transformItem(Head(googleBooks))>>)
         \o transformBookData(Tail(googleBooks))


(***************************************************************************)
(* The environment: the items the source can serve and the row the table    *)
(* may already hold.                                                        *)
(***************************************************************************)
\* Both identifier schemes, the ISBN_10 entry listed first.
ItemA ==
    [ title |-> "Dune", authors |-> Some(<<"Herbert">>),
      industryIdentifiers |-> Some(<< [type |-> "ISBN_10", identifier |-> "0441013597"],
                                      [type |-> "ISBN_13", identifier |-> "9780441013593"] >>),
      description |-> "", categories |-> Some(<< <<"S","c","i"," ","F","i">> >>),
      publishedDate |-> <<"1","9","6","5">>, thumbnail |-> "" ]

\* ISBN_10 only, two authors.
ItemB ==
    [ title |-> "Emma", authors |-> Some(<<"Austen", "Pinch">>),
      industryIdentifiers |-> Some(<< [type |-> "ISBN_10", identifier |-> "0141439580"] >>),
      description |-> "A novel.", categories |-> None,
      publishedDate |-> <<"1","8","1","5","-","1","2">>, thumbnail |-> "http://t/emma" ]

\* No identifiers: skipped by transformBookData.
ItemX ==
    [ title |-> "Untitled notes", authors |-> Some(<<"Anon">>),
      industryIdentifiers |-> None,
      description |-> "", categories |-> None,
      publishedDate |-> <<>>, thumbnail |-> "" ]

SourceItems == {ItemA, ItemB, ItemX}

\* A row inserted before the first run, with the isbn ItemA is given.
SeedRow ==
    [ title |-> "Dune (1st ed.)", author |-> "Frank Herbert", isbn |-> "9780441013593",
      description |-> "seed", genre |-> <<"s","c","i">>,
      publication_date |-> <<"1","9","6","5","-","0","8","-","0","1">>,
      cover_image |-> None ]

SeqsUpTo(S, n) == UNION { [1..k -> S] : k \in 0..n }

\* The pages the source can serve (never more than maxResults items).
Pages == SeqsUpTo(SourceItems, IF MaxPageItems < maxResults THEN MaxPageItems ELSE maxResults)

\* process.env: which of the three credentials are set.
Envs == [ SUPABASE_URL : BOOLEAN, SUPABASE_SERVICE_KEY : BOOLEAN,
          GOOGLE_BOOKS_API_KEY : BOOLEAN ]

\* Variant of keysLoaded: the Google key is not checked.
keysLoadedSupabaseOnly(e) == e.SUPABASE_URL /\ e.SUPABASE_SERVICE_KEY

\* part_000:15  the negation of the test: all three variables are truthy.
keysLoaded(e) == e.SUPABASE_URL /\ e.SUPABASE_SERVICE_KEY /\ e.GOOGLE_BOOKS_API_KEY

\* What node-fetch gives for one request: a 2xx response with the items of
\* the page, a non-2xx response, or a rejected promise.
OkResponse(items) == [kind |-> "ok", items |-> items]
HttpError == [kind |-> "http_error", items |-> <<>>]
TransportFailure == [kind |-> "transport", items |-> <<>>]

(***************************************************************************)
(* fetchGoogleBooks, part_000:30-46: the value the promise resolves to.     *)
(* The throw of line 38 and a rejection of fetch are both caught at line 42 *)
(* and turned into [].                                                      *)
(***************************************************************************)
fetchGoogleBooks(response) ==
    IF response.kind = "ok"
    THEN [threw |-> FALSE, value |-> response.items]
    ELSE [threw |-> FALSE, value |-> <<>>]

\* Variants of loopBound: Math.floor for Math.ceil; i <= for i <.
loopBoundFloor(total) == total \div booksPerPage
loopBoundInclusive(total) == (total + booksPerPage - 1) \div booksPerPage + 1

\* part_000:114  Math.ceil(totalBooksToFetch / booksPerPage)
loopBound(total) == (total + booksPerPage - 1) \div booksPerPage

\* Variant of noMoreBooks: < for ===.
noMoreBooksNever(googleBooks) == Len(googleBooks) < 0

\* part_000:119  googleBooks.length === 0
noMoreBooks(googleBooks) == Len(googleBooks) = 0

\* Variant of pushAll: the array is replaced by the page, not extended.
pushAllOverwrite(acc, booksForSupabase) == booksForSupabase

\* part_000:126  allBooksToInsert.push(...booksForSupabase)
pushAll(acc, booksForSupabase) == acc \o booksForSupabase

(***************************************************************************)
(* The `books` table: a set of rows with a unique constraint on isbn.       *)
(* part_000:142-144 calls insert(), which sends one plain INSERT of all the *)
(* rows; insert() reads no onConflict option (only upsert() does), so a key *)
(* collision is a unique violation that rejects the whole statement.        *)
(***************************************************************************)
Isbns(rows) == { r.isbn : r \in rows }
Range(seq) == { seq[k] : k \in 1..Len(seq) }

Collides(table, batch) ==
    \/ \E k \in 1..Len(batch) : batch[k].isbn \in Isbns(table)
    \/ \E k, l \in 1..Len(batch) : k # l /\ batch[k].isbn = batch[l].isbn

\* The table after the statement and the error it returns ("" for none).
insert(table, batch, storeUp) ==
    IF ~storeUp THEN [table |-> table, error |-> "connection failed"]
    ELSE IF Collides(table, batch)
    THEN [table |-> table, error |-> "duplicate key value violates unique constraint"]
    ELSE [table |-> table \cup Range(batch), error |-> ""]


(***************************************************************************)
(* State.                                                                   *)
(***************************************************************************)
VARIABLES
    pc,                 \* where the process is: "startup", "fetching", "sleeping",
                        \* "inserting" (an await in main) or "exited"
    env,                \* process.env of the running process
    totalBooksToFetch,  \* part_000:105
    i,                  \* loop counter of part_000:114
    allBooksToInsert,   \* part_000:112
    returns,            \* this process: per fetchGoogleBooks call, the response
                        \* received and the value returned
    source,             \* the source's pages, as far as they have been served
    store,              \* rows of the books table
    store0,             \* rows of the books table when the process started
    io,                 \* this process: its requests and timers, in order
    writes,             \* this process: the row arrays passed to insert()
    error,              \* part_000:142  the error of the insert's answer, "" for none
    console,            \* this process: its console output
    exitCode,           \* exit status of the process: None while it runs, then Some(status)
    run,                \* number of the process, 1..MaxRuns
    past                \* the earlier processes: what each fetched, wrote and printed

vars == << pc, env, totalBooksToFetch, i, allBooksToInsert, returns, source,
           store, store0, io, writes, error, console, exitCode, run, past >>

\* transformBookData called on its own (the page of part_000:124 as an
\* arbitrary array of items).
VARIABLES
    rawBatch,           \* part_000:53  the argument googleBooks
    normalized          \* the array returned: None before the call, then Some(array)

normVars == << rawBatch, normalized >>

\* AuthProvider (src/unnamed/part_001) and the auth service it talks to.
VARIABLES
    user,               \* part_001:18  None or Some(user id)
    profile,            \* part_001:19  None or Some(profile row)
    loading,            \* part_001:20
    isMounted,          \* part_001:24
    subscribed,         \* part_001:49  the listener is registered
    session,            \* the session the auth service holds: None or Some(user id)
    checkSession,       \* part_001:27-46  "idle", "getSession" (awaiting) or "done"
    signUpCall,         \* part_001:95-120  "idle", "inflight" (awaiting signUp) or "done"
    profileFetches,     \* part_001:73-88  the fetchProfile calls awaiting their query
    profileCalls,       \* number of fetchProfile calls made
    authEvents          \* number of auth state changes delivered

authVars == << user, profile, loading, isMounted, subscribed, session, checkSession,
               signUpCall, profileFetches, profileCalls, authEvents >>

\* useBooks (src/src/pages/Books.tsx:140-220) and the queries it has sent.
VARIABLES
    hookParams,         \* Books.tsx:140  the arguments of the last render, None before it
    books,              \* Books.tsx:141
    booksLoading,       \* Books.tsx:142
    booksError,         \* Books.tsx:143  None or Some(message)
    totalCount,         \* Books.tsx:144
    queries,            \* Books.tsx:178  the fetchBooks calls awaiting their query
    queryCalls,         \* number of fetchBooks calls made
    paramChanges        \* number of renders with changed arguments

booksVars == << hookParams, books, booksLoading, booksError, totalCount, queries,
                queryCalls, paramChanges >>

\* The Books page (src/src/pages/Books.tsx:7-135) and its URL.
VARIABLES
    searchParams,       \* Books.tsx:8   [genre : None or Some(g), search : text]
    selectedGenre,      \* Books.tsx:9
    sortBy,             \* Books.tsx:10
    page,               \* Books.tsx:11
    effectPending,      \* Books.tsx:20-27  searchParams changed, its effect has not run yet
    filterChanged       \* history: the last step of the page changed selectedGenre or sortBy

pageVars == << searchParams, selectedGenre, sortBy, page, effectPending, filterChanged >>

\* The state of the components a specification does not run.
others == << normVars, authVars, booksVars, pageVars >>

NormIdle == rawBatch = <<>> /\ normalized = None

AuthIdle ==
    /\ user = None /\ profile = None /\ loading = TRUE
    /\ isMounted = FALSE /\ subscribed = FALSE /\ session = None
    /\ checkSession = "idle" /\ signUpCall = "idle"
    /\ profileFetches = {} /\ profileCalls = 0 /\ authEvents = 0

BooksIdle ==
    /\ hookParams = None /\ books = <<>> /\ booksLoading = TRUE
    /\ booksError = None /\ totalCount = 0
    /\ queries = {} /\ queryCalls = 0 /\ paramChanges = 0

PageIdle ==
    /\ searchParams = [genre |-> None, search |-> <<>>]
    /\ selectedGenre = "all" /\ sortBy = "newest" /\ page = 1
    /\ effectPending = FALSE /\ filterChanged = FALSE

OthersIdle == NormIdle /\ AuthIdle /\ BooksIdle /\ PageIdle

Say(msg, n) == [msg |-> msg, n |-> n]
Req(op, arg) == [op |-> op, arg |-> arg]

Init ==
    /\ pc = "startup"
    /\ env \in Envs
    /\ totalBooksToFetch \in Targets
    /\ i = 0
    /\ allBooksToInsert = <<>>
    /\ returns = <<>>
    /\ source = <<>>
    /\ store \in {{}, {SeedRow}}
    /\ store0 = store
    /\ io = <<>>
    /\ writes = <<>>
    /\ error = ""
    /\ console = <<>>
    /\ exitCode = None
    /\ run = 1
    /\ past = <<>>
    /\ OthersIdle

(***************************************************************************)
(* main from line 132 on (after the loop), with the array acc and the       *)
(* output con so far, up to the await of line 142 or the return of 134.     *)
(* AfterLoopAlwaysInserts is the variant without the test of line 132.      *)
(***************************************************************************)
AfterLoopAlwaysInserts(acc, con) ==
    /\ pc' = "inserting"
    /\ io' = Append(io, Req("insert", Len(acc)))
    /\ writes' = Append(writes, acc)
    /\ console' = Append(con, Say("Fetched valid books. Now inserting into Supabase", Len(acc)))
    /\ UNCHANGED exitCode

AfterLoop(acc, con) ==
    IF Len(acc) = 0
    THEN \* 132-135
         /\ pc' = "exited"
         /\ exitCode' = Some(0)
         /\ console' = Append(con, Say("No books found or an error occurred. Exiting.", 0))
         /\ UNCHANGED << io, writes >>
    ELSE \* 137-144
         /\ pc' = "inserting"
         /\ io' = Append(io, Req("insert", Len(acc)))
         /\ writes' = Append(writes, acc)
         /\ console' = Append(con, Say("Fetched valid books. Now inserting into Supabase", Len(acc)))
         /\ UNCHANGED exitCode

(***************************************************************************)
(* main from the loop test of line 114 on, with i = n, up to the await of   *)
(* line 118 or, when the test fails, as AfterLoop.  LoopFromNextOffset is   *)
(* the variant with startIndex = (i + 1) * booksPerPage.                    *)
(***************************************************************************)
LoopFromNextOffset(n, acc, con) ==
    IF n < loopBound(totalBooksToFetch)
    THEN /\ pc' = "fetching"
         /\ io' = Append(io, Req("fetch", (n + 1) * booksPerPage))
         /\ console' = Append(con, Say("Fetching page", n + 1))
         /\ UNCHANGED << writes, exitCode >>
    ELSE AfterLoop(acc, con)

LoopFrom(n, acc, con) ==
    IF n < loopBound(totalBooksToFetch)
    THEN \* 115-118: request the page at startIndex
         /\ pc' = "fetching"
         /\ io' = Append(io, Req("fetch", n * booksPerPage))
         /\ console' = Append(con, Say("Fetching page", n + 1))
         /\ UNCHANGED << writes, exitCode >>
    ELSE AfterLoop(acc, con)

(***************************************************************************)
(* part_000:128-129: main, holding the array acc, waits for the timer.      *)
(* RateLimitNotAwaited is the variant without the await: the loop goes on   *)
(* at once.                                                                 *)
(***************************************************************************)
RateLimitNotAwaited(acc, con) ==
    /\ i' = i + 1
    /\ LoopFrom(i + 1, acc, con)

RateLimit(acc, con) ==
    /\ i' = i
    /\ pc' = "sleeping"
    /\ io' = Append(io, Req("sleep", rateLimitDelay))
    /\ console' = con
    /\ UNCHANGED << writes, exitCode >>

(***************************************************************************)
(* Actions: one per stretch of code between two awaits.                     *)
(***************************************************************************)
\* part_000:10-19: a credential is missing.
StartupMissingKeys ==
    /\ pc = "startup"
    /\ ~keysLoaded(env)
    /\ pc' = "exited"
    /\ exitCode' = Some(1)
    /\ console' = Append(console, Say("Error: Missing API keys in .env file.", 0))
    /\ UNCHANGED << env, totalBooksToFetch, i, allBooksToInsert, returns, source,
                    store, store0, io, writes, error, run, past >>
    /\ UNCHANGED others

\* part_000:10-22, 155, 101-118: the credentials are there; main starts and
\* runs to its first await.
StartupMain ==
    /\ pc = "startup"
    /\ keysLoaded(env)
    /\ i' = 0
    /\ allBooksToInsert' = <<>>
    /\ LoopFrom(0, <<>>, Append(console, Say("Starting script to fetch books", totalBooksToFetch)))
    /\ UNCHANGED << env, totalBooksToFetch, returns, source, store, store0, error,
                    run, past >>
    /\ UNCHANGED others

\* The page of the source at a startIndex, and the pages served so far once
\* it is served: a page is fixed the first time it is served.
PageNo(startIndex) == startIndex \div booksPerPage + 1

\* part_000:30-46, 118-129: the request of line 35 completes with `response`;
\* main runs on to the timer of line 129, or breaks out of the loop and runs
\* on from line 132.
FetchCompletes(response) ==
    LET googleBooks == fetchGoogleBooks(response)
        con == IF response.kind = "ok" THEN console
               ELSE Append(console, Say("Error fetching from Google Books:", 0))
    IN
    /\ returns' = Append(returns, [response |-> response, result |-> googleBooks])
    /\ IF googleBooks.threw
       THEN \* main rejects; line 155 prints the error
            /\ i' = i
            /\ pc' = "exited"
            /\ exitCode' = Some(0)
            /\ console' = Append(con, Say("uncaught", 0))
            /\ UNCHANGED << allBooksToInsert, io, writes >>
       ELSE IF noMoreBooks(googleBooks.value)
       THEN \* 119-122
            /\ i' = i
            /\ allBooksToInsert' = allBooksToInsert
            /\ AfterLoop(allBooksToInsert,
                         Append(con, Say("No more books found from Google. Stopping.", 0)))
       ELSE \* 124-129
            /\ allBooksToInsert' = pushAll(allBooksToInsert,
                                            transformBookData(googleBooks.value))
            /\ RateLimit(pushAll(allBooksToInsert, transformBookData(googleBooks.value)),
                         con)
    /\ UNCHANGED << env, totalBooksToFetch, store, store0, error, run, past >>
    /\ UNCHANGED others

\* The source answers the request in flight with the page at its startIndex.
FetchSucceeds ==
    /\ pc = "fetching"
    /\ LET k == PageNo(io[Len(io)].arg) IN
       IF k <= Len(source)
       THEN /\ source' = source
            /\ FetchCompletes(OkResponse(source[k]))
       ELSE \E items \in Pages :
            /\ source' = Append(source, items)
            /\ FetchCompletes(OkResponse(items))

\* The source answers with an error status, or the request fails in transit.
FetchFails ==
    /\ pc = "fetching"
    /\ source' = source
    /\ \E response \in {HttpError, TransportFailure} : FetchCompletes(response)

\* Variant of TimerFires: the promise of line 129 is never resolved.
TimerNeverResolves ==
    /\ pc = "sleeping"
    /\ FALSE
    /\ UNCHANGED << vars, others >>

\* part_000:129, 114-118: the timer fires; i++ and the loop test.
TimerFires ==
    /\ pc = "sleeping"
    /\ i' = i + 1
    /\ allBooksToInsert' = allBooksToInsert
    /\ LoopFrom(i + 1, allBooksToInsert, console)
    /\ UNCHANGED << env, totalBooksToFetch, returns, source, store, store0, error,
                    run, past >>
    /\ UNCHANGED others

\* part_000:142-152: the store answers the insert; main reports and returns.
InsertCompletes ==
    /\ pc = "inserting"
    /\ \E storeUp \in BOOLEAN :
         LET res == insert(store, writes[Len(writes)], storeUp) IN
         /\ store' = res.table
         /\ error' = res.error
         /\ console' = IF res.error # ""
                       THEN Append(console, Say("Error inserting data into Supabase:", 0))
                       ELSE Append(console, Say("Successfully processed books!",
                                                Len(allBooksToInsert)))
    /\ pc' = "exited"
    /\ exitCode' = Some(0)
    /\ UNCHANGED << env, totalBooksToFetch, i, allBooksToInsert, returns, source,
                    store0, io, writes, run, past >>
    /\ UNCHANGED others

\* The operator starts the script again, with the same .env file and the
\* same target, against the same source and table.
Restart ==
    /\ pc = "exited"
    /\ run < MaxRuns
    /\ run' = run + 1
    /\ pc' = "startup"
    /\ i' = 0
    /\ allBooksToInsert' = <<>>
    /\ returns' = <<>>
    /\ io' = <<>>
    /\ writes' = <<>>
    /\ error' = ""
    /\ console' = <<>>
    /\ exitCode' = None
    /\ store0' = store
    /\ past' = Append(past, [returns |-> returns, writes |-> writes, error |-> error,
                             console |-> console, exitCode |-> exitCode])
    /\ UNCHANGED << env, totalBooksToFetch, source, store >>
    /\ UNCHANGED others

Next ==
    \/ StartupMissingKeys
    \/ StartupMain
    \/ FetchSucceeds
    \/ FetchFails
    \/ TimerFires
    \/ InsertCompletes
    \/ Restart

Spec == Init /\ [][Next]_vars

\* One process from its start to its exit.
RunNext ==
    \/ StartupMissingKeys
    \/ StartupMain
    \/ FetchSucceeds
    \/ FetchFails
    \/ TimerFires
    \/ InsertCompletes

SpecRun == Init /\ [][RunNext]_vars

\* Every request, timer and store write in flight eventually returns, and a
\* started process runs its startup code.
FairSpec ==
    /\ SpecRun
    /\ WF_vars(StartupMissingKeys \/ StartupMain)
    /\ WF_vars(FetchSucceeds \/ FetchFails)
    /\ WF_vars(TimerFires)
    /\ WF_vars(InsertCompletes)

(***************************************************************************)
(* transformBookData on its own: one call on an array holding one item      *)
(* drawn from the shapes the source can send.                               *)
(***************************************************************************)
IdEntries == { [type |-> "ISBN_10", identifier |-> "0441013597"],
               [type |-> "ISBN_13", identifier |-> "9780441013593"],
               [type |-> "OTHER",   identifier |-> "UOM:39015" ] }

SeqsFrom(S, lo, hi) == UNION { [1..k -> S] : k \in lo..hi }

\* industryIdentifiers: absent, or an array of 0..MaxIds entries.
IdLists == {None} \cup { Some(l) : l \in SeqsFrom(IdEntries, 0, MaxIds) }

\* authors: absent, an empty array, one author, two authors.
AuthorLists == { None, Some(<<>>), Some(<<"Herbert">>), Some(<<"Austen", "Pinch">>) }

\* publishedDate: absent/empty, or the first n characters of a timestamp.
DateText == <<"2","0","2","3","-","0","1","-","1","5","T","1","0",":","0","0">>
DateStrings == { SubSeq(DateText, 1, n) : n \in 0..MaxDateLen }

RawItems ==
    [ title : {"", "Dune"}, authors : AuthorLists, industryIdentifiers : IdLists,
      description : {""}, categories : {None}, publishedDate : DateStrings,
      thumbnail : {""} ]

\* The state of the script while transformBookData is run on its own.
PipelineIdle ==
    /\ pc = "idle"
    /\ env = [SUPABASE_URL |-> TRUE, SUPABASE_SERVICE_KEY |-> TRUE,
              GOOGLE_BOOKS_API_KEY |-> TRUE]
    /\ totalBooksToFetch = 1
    /\ i = 0
    /\ allBooksToInsert = <<>>
    /\ returns = <<>>
    /\ source = <<>>
    /\ store = {}
    /\ store0 = {}
    /\ io = <<>>
    /\ writes = <<>>
    /\ error = ""
    /\ console = <<>>
    /\ exitCode = None
    /\ run = 1
    /\ past = <<>>

InitNorm ==
    /\ PipelineIdle /\ AuthIdle /\ BooksIdle /\ PageIdle
    /\ \E vol \in RawItems : rawBatch = <<vol>>
    /\ normalized = None

\* part_000:53-96, 124: the call.
Normalize ==
    /\ normalized = None
    /\ normalized' = Some(transformBookData(rawBatch))
    /\ UNCHANGED << rawBatch, vars, authVars, booksVars, pageVars >>

NextNorm == Normalize

SpecNorm == InitNorm /\ [][NextNorm]_<< vars, normVars >>

(***************************************************************************)
(* AuthProvider, src/unnamed/part_001.                                      *)
(***************************************************************************)
Uids == {"u1", "u2"}
Sessions == {None} \cup { Some(u) : u \in Uids }

\* The row of the profiles table for a user id.
ProfileOf(userId) == [id |-> userId]

\* part_001:73-79: fetchProfile(userId) sends its query and awaits it.
StartFetchProfile(userId, caller) ==
    /\ profileCalls' = profileCalls + 1
    /\ profileFetches' = profileFetches \cup
           { [call |-> profileCalls + 1, userId |-> userId, caller |-> caller] }

\* part_001:35-41 and 53-62: the state is set from a session s; the profile
\* is fetched for its user, or cleared when there is none.
ApplySession(s, caller) ==
    /\ user' = s
    /\ IF s # None
       THEN /\ StartFetchProfile(Get(s), caller)
            /\ UNCHANGED << profile, loading >>
       ELSE /\ profile' = None
            /\ loading' = FALSE
            /\ UNCHANGED << profileFetches, profileCalls >>

InitAuth ==
    /\ PipelineIdle /\ NormIdle /\ BooksIdle /\ PageIdle
    /\ user = None /\ profile = None /\ loading = TRUE
    /\ isMounted = FALSE /\ subscribed = FALSE
    /\ session \in Sessions
    /\ checkSession = "idle" /\ signUpCall = "idle"
    /\ profileFetches = {} /\ profileCalls = 0 /\ authEvents = 0

\* part_001:23-64: the effect runs once after the first render.
MountEffect ==
    /\ checkSession = "idle"
    /\ isMounted' = TRUE
    /\ checkSession' = "getSession"
    /\ subscribed' = TRUE
    /\ UNCHANGED << user, profile, loading, session, signUpCall, profileFetches,
                    profileCalls, authEvents >>
    /\ UNCHANGED << vars, normVars, booksVars, pageVars >>

\* part_001:28-42: getSession returns the session the service holds now.
GetSessionReturns ==
    /\ checkSession = "getSession"
    /\ checkSession' = "done"
    /\ IF isMounted
       THEN ApplySession(session, "checkSession")
       ELSE UNCHANGED << user, profile, loading, profileFetches, profileCalls >>
    /\ UNCHANGED << isMounted, subscribed, session, signUpCall, authEvents >>
    /\ UNCHANGED << vars, normVars, booksVars, pageVars >>

\* part_001:49-63: the session changes (sign-in, sign-out, another user) and
\* the listener is called with the new session.
AuthStateChange ==
    /\ subscribed
    /\ authEvents < MaxAuthEvents
    /\ authEvents' = authEvents + 1
    /\ \E s \in Sessions :
         /\ session' = s
         /\ ApplySession(s, "onAuthStateChange")
    /\ UNCHANGED << isMounted, subscribed, checkSession, signUpCall >>
    /\ UNCHANGED << vars, normVars, booksVars, pageVars >>

\* part_001:95-106: signUp is called and awaits the service.
SignUpCalled ==
    /\ isMounted
    /\ signUpCall = "idle"
    /\ signUpCall' = "inflight"
    /\ UNCHANGED << user, profile, loading, isMounted, subscribed, session,
                    checkSession, profileFetches, profileCalls, authEvents >>
    /\ UNCHANGED << vars, normVars, booksVars, pageVars >>

\* part_001:108-113: the service created the user.
SignUpSucceeds ==
    /\ signUpCall = "inflight"
    /\ signUpCall' = "done"
    /\ \E u \in Uids :
         /\ user' = Some(u)
         /\ StartFetchProfile(u, "signUp")
    /\ UNCHANGED << profile, loading, isMounted, subscribed, session, checkSession,
                    authEvents >>
    /\ UNCHANGED << vars, normVars, booksVars, pageVars >>

\* part_001:114-119: the service answered with an error.
SignUpFails ==
    /\ signUpCall = "inflight"
    /\ signUpCall' = "done"
    /\ UNCHANGED << user, profile, loading, isMounted, subscribed, session,
                    checkSession, profileFetches, profileCalls, authEvents >>
    /\ UNCHANGED << vars, normVars, booksVars, pageVars >>

\* part_001:80-82, then 41, 62 or 113 in the caller: the query of a
\* fetchProfile call returns the row.
FetchProfileSucceeds ==
    \E f \in profileFetches :
        /\ profileFetches' = profileFetches \ {f}
        /\ profile' = Some(ProfileOf(f.userId))
        /\ loading' = FALSE
        /\ UNCHANGED << user, isMounted, subscribed, session, checkSession, signUpCall,
                        profileCalls, authEvents >>
        /\ UNCHANGED << vars, normVars, booksVars, pageVars >>

\* part_001:81, 83-87, then 41, 62 or 113: the query returns an error.
FetchProfileFails ==
    \E f \in profileFetches :
        /\ profileFetches' = profileFetches \ {f}
        /\ profile' = None
        /\ loading' = FALSE
        /\ UNCHANGED << user, isMounted, subscribed, session, checkSession, signUpCall,
                        profileCalls, authEvents >>
        /\ UNCHANGED << vars, normVars, booksVars, pageVars >>

\* part_001:67-70: the cleanup of the effect.
Unmount ==
    /\ isMounted
    /\ isMounted' = FALSE
    /\ subscribed' = FALSE
    /\ UNCHANGED << user, profile, loading, session, checkSession, signUpCall,
                    profileFetches, profileCalls, authEvents >>
    /\ UNCHANGED << vars, normVars, booksVars, pageVars >>

NextAuth ==
    \/ MountEffect
    \/ GetSessionReturns
    \/ AuthStateChange
    \/ SignUpCalled
    \/ SignUpSucceeds
    \/ SignUpFails
    \/ FetchProfileSucceeds
    \/ FetchProfileFails
    \/ Unmount

SpecAuth == InitAuth /\ [][NextAuth]_authVars

(***************************************************************************)
(* useBooks, src/src/pages/Books.tsx:140-220.                               *)
(***************************************************************************)
\* Books.tsx:15  the page size the Books page passes (also the default).
limit == 12

\* The books table with its reviews, listed in created_at descending order
\* (Books.tsx:174).  Text is a tuple of characters.
\* The first three rows differ in every column; the rows after them are
\* further scifi titles, so that "all" and "scifi" fill more than one page.
BooksTable ==
    << [id |-> 1, title |-> <<"S","a","g","a">>, author |-> <<"V","a","u","g","h","a","n">>,
        genre |-> "scifi", reviews |-> <<5, 4, 4>>],
       [id |-> 2, title |-> <<"E","m","m","a">>, author |-> <<"A","u","s","t","e","n">>,
        genre |-> "fiction", reviews |-> <<>>],
       [id |-> 3, title |-> <<"F","l","u","x">>, author |-> <<"S","a","x">>,
        genre |-> "scifi", reviews |-> <<3>>] >>
    \o [k \in 1..(TableSize - 3) |->
          [id |-> k + 3, title |-> <<"N","o","v","a">>, author |-> <<"R","e","e","d">>,
           genre |-> "scifi", reviews |-> <<>>]]

\* The arguments the Books page can pass (Books.tsx:13-15).
HookParams ==
    [searchTerm : {<<>>, <<"s","a">>}, genre : {"all", "scifi"}, page : {1, 2}, limit : {limit}]

\* PostgreSQL ILIKE '%term%': case-insensitive containment.
ilike(text, term) ==
    \E k \in 1..(Len(text) - Len(term) + 1) :
        toLowerCase(SubSeq(text, k, k + Len(term) - 1)) = toLowerCase(term)

\* Books.tsx:163-168  the filters of the query ('' is falsy).
Selected(book, params) ==
    /\ params.searchTerm # <<>> =>
          (ilike(book.title, params.searchTerm) \/ ilike(book.author, params.searchTerm))
    /\ params.genre # "all" => book.genre = params.genre

Min(a, b) == IF a < b THEN a ELSE b

RECURSIVE Sum(_)
Sum(ratings) == IF ratings = <<>> THEN 0 ELSE Head(ratings) + Sum(Tail(ratings))

\* Books.tsx:190-203  average_rating is kept in tenths:
\* Math.round(averageRating * 10), halves rounded up.
withRatings(book) ==
    LET totalReviews == Len(book.reviews)
    IN  [id |-> book.id, title |-> book.title, author |-> book.author, genre |-> book.genre,
         average_rating |-> IF totalReviews > 0
                            THEN (20 * Sum(book.reviews) + totalReviews) \div (2 * totalReviews)
                            ELSE 0,
         total_reviews |-> totalReviews]

\* Books.tsx:158-178  what the query returns for the arguments it was built
\* from: the rows of the requested range and the exact count of all matches.
runQuery(params) ==
    LET matching == SelectSeq(BooksTable, LAMBDA b : Selected(b, params))
        from == (params.page - 1) * params.limit
        to == params.page * params.limit - 1
    IN  [data |-> SubSeq(matching, from + 1, Min(to + 1, Len(matching))),
         count |-> Len(matching)]

\* Books.tsx:190-203
booksWithRatings(data) == [k \in 1..Len(data) |-> withRatings(data[k])]

\* Books.tsx:151-178  fetchBooks up to its await; the query is built from the
\* arguments of the render whose effect called it.
fetchBooks(params) ==
    /\ booksLoading' = TRUE
    /\ booksError' = None
    /\ queryCalls' = queryCalls + 1
    /\ queries' = queries \cup { [call |-> queryCalls + 1, params |-> params] }

InitBooks ==
    /\ PipelineIdle /\ NormIdle /\ AuthIdle /\ PageIdle
    /\ hookParams = None
    /\ books = <<>>
    /\ booksLoading = TRUE
    /\ booksError = None
    /\ totalCount = 0
    /\ queries = {}
    /\ queryCalls = 0
    /\ paramChanges = 0

\* Books.tsx:140-149  the first render and its effect.
FirstRender ==
    /\ hookParams = None
    /\ \E p \in HookParams :
         /\ hookParams' = Some(p)
         /\ fetchBooks(p)
    /\ UNCHANGED << books, totalCount, paramChanges >>
    /\ UNCHANGED << vars, normVars, authVars, pageVars >>

\* Books.tsx:146-149  a render with a changed dependency runs the effect again.
ParamsChange ==
    /\ hookParams # None
    /\ paramChanges < MaxParamChanges
    /\ paramChanges' = paramChanges + 1
    /\ \E p \in HookParams \ {Get(hookParams)} :
         /\ hookParams' = Some(p)
         /\ fetchBooks(p)
    /\ UNCHANGED << books, totalCount >>
    /\ UNCHANGED << vars, normVars, authVars, pageVars >>

\* Books.tsx:178-207, 214-216  the query of a fetchBooks call returns rows.
QuerySucceeds ==
    \E q \in queries :
        LET result == runQuery(q.params)
        IN  /\ queries' = queries \ {q}
            /\ books' = booksWithRatings(result.data)
            /\ totalCount' = result.count
            /\ booksLoading' = FALSE
            /\ UNCHANGED << hookParams, booksError, queryCalls, paramChanges >>
            /\ UNCHANGED << vars, normVars, authVars, pageVars >>

\* Books.tsx:182-185, 209-216  the query returns an error.
QueryFails ==
    \E q \in queries :
        /\ queries' = queries \ {q}
        /\ booksError' = Some("An error occurred")
        /\ booksLoading' = FALSE
        /\ UNCHANGED << hookParams, books, totalCount, queryCalls, paramChanges >>
        /\ UNCHANGED << vars, normVars, authVars, pageVars >>

NextBooks ==
    \/ FirstRender
    \/ ParamsChange
    \/ QuerySucceeds
    \/ QueryFails

SpecBooks == InitBooks /\ [][NextBooks]_booksVars

(***************************************************************************)
(* The Books page, src/src/pages/Books.tsx:7-135, with the useBooks hook it *)
(* calls.                                                                   *)
(***************************************************************************)
Genres == {"all", "scifi", "fiction"}
Sorts == {"newest", "rating"}

\* The query strings the page is opened or navigated with: ?genre= and ?search=.
Urls == [genre : {None} \cup { Some(g) : g \in Genres \ {"all"} },
         search : {<<>>, <<"s","a">>}]

\* Books.tsx:9, 21-26  searchParams.get('genre') || 'all'
genreOf(sp) == IF IsSome(sp.genre) THEN Get(sp.genre) ELSE "all"

\* Books.tsx:13-15  the arguments of useBooks in a render.
hookArgs(sp, genre, pageNo) ==
    [searchTerm |-> sp.search, genre |-> genre, page |-> pageNo, limit |-> limit]

\* Books.tsx:17  Math.ceil(totalCount / 12)
totalPages == (totalCount + limit - 1) \div limit

Max(a, b) == IF a > b THEN a ELSE b

\* Books.tsx:82-124  the pages the pagination buttons lead to: Previous, the
\* numbered buttons, Next.  The buttons are rendered only if totalPages > 1.
PageButtons ==
    LET numbered == { IF totalPages <= 5 THEN k + 1
                      ELSE IF page <= 3 THEN k + 1
                      ELSE IF page >= totalPages - 2 THEN totalPages - 4 + k
                      ELSE page - 2 + k : k \in 0..(Min(5, totalPages) - 1) }
    IN  IF totalPages > 1
        THEN { n \in numbered : n >= 1 /\ n <= totalPages }
             \cup (IF page = 1 THEN {} ELSE {Max(1, page - 1)})
             \cup (IF page = totalPages THEN {} ELSE {Min(totalPages, page + 1)})
        ELSE {}

\* Books.tsx:15, 146-149  the page renders again with these arguments of
\* useBooks; the effect of the hook calls fetchBooks if one of them changed.
Render(args) ==
    /\ IF Get(hookParams) = args
       THEN UNCHANGED << hookParams, booksLoading, booksError, queries, queryCalls,
                         paramChanges >>
       ELSE /\ paramChanges < MaxParamChanges
            /\ paramChanges' = paramChanges + 1
            /\ hookParams' = Some(args)
            /\ fetchBooks(args)
    /\ UNCHANGED << books, totalCount >>

InitPage ==
    /\ PipelineIdle /\ NormIdle /\ AuthIdle
    /\ hookParams = None /\ books = <<>> /\ booksLoading = TRUE
    /\ booksError = None /\ totalCount = 0
    /\ queries = {} /\ queryCalls = 0 /\ paramChanges = 0
    /\ searchParams \in Urls
    /\ selectedGenre = genreOf(searchParams)
    /\ sortBy = "newest"
    /\ page = 1
    /\ effectPending = TRUE
    /\ filterChanged = FALSE

\* Books.tsx:7-15, 146-149  the first render of the page and the effect of
\* the hook.
BooksMount ==
    /\ hookParams = None
    /\ hookParams' = Some(hookArgs(searchParams, selectedGenre, page))
    /\ fetchBooks(hookArgs(searchParams, selectedGenre, page))
    /\ UNCHANGED << books, totalCount, paramChanges, pageVars >>
    /\ UNCHANGED << vars, normVars, authVars >>

\* Books.tsx:19-27  the effect on [searchParams] copies the genre of the URL
\* into selectedGenre.
SearchParamsEffect ==
    /\ hookParams # None
    /\ effectPending
    /\ effectPending' = FALSE
    /\ selectedGenre' = genreOf(searchParams)
    /\ filterChanged' = (genreOf(searchParams) # selectedGenre)
    /\ Render(hookArgs(searchParams, genreOf(searchParams), page))
    /\ UNCHANGED << searchParams, sortBy, page >>
    /\ UNCHANGED << vars, normVars, authVars >>

\* Books.tsx:8  the URL changes from outside the page (a link, the search
\* box of the header, back/forward).
Navigate ==
    /\ hookParams # None
    /\ ~effectPending
    /\ \E sp \in Urls \ {searchParams} :
         /\ searchParams' = sp
         /\ Render(hookArgs(sp, selectedGenre, page))
    /\ effectPending' = TRUE
    /\ filterChanged' = FALSE
    /\ UNCHANGED << selectedGenre, sortBy, page >>
    /\ UNCHANGED << vars, normVars, authVars >>

\* Books.tsx:29-40
handleGenreChange ==
    /\ hookParams # None
    /\ ~effectPending
    /\ \E genre \in Genres :
         LET newParams == [searchParams EXCEPT
                             !.genre = IF genre = "all" THEN None ELSE Some(genre)]
         IN  /\ selectedGenre' = genre
             /\ page' = 1
             /\ searchParams' = newParams
             /\ filterChanged' = (genre # selectedGenre)
             /\ Render(hookArgs(newParams, genre, 1))
    /\ effectPending' = TRUE
    /\ UNCHANGED sortBy
    /\ UNCHANGED << vars, normVars, authVars >>

\* Books.tsx:42-46
handleSortChange ==
    /\ hookParams # None
    /\ ~effectPending
    /\ \E sort \in Sorts :
         /\ sortBy' = sort
         /\ filterChanged' = (sort # sortBy)
    /\ page' = 1
    /\ Render(hookArgs(searchParams, selectedGenre, 1))
    /\ UNCHANGED << searchParams, selectedGenre, effectPending >>
    /\ UNCHANGED << vars, normVars, authVars >>

\* Books.tsx:48-51
handlePageChange ==
    /\ hookParams # None
    /\ ~effectPending
    /\ \E newPage \in PageButtons :
         /\ page' = newPage
         /\ Render(hookArgs(searchParams, selectedGenre, newPage))
    /\ filterChanged' = FALSE
    /\ UNCHANGED << searchParams, selectedGenre, sortBy, effectPending >>
    /\ UNCHANGED << vars, normVars, authVars >>

NextPage ==
    \/ BooksMount
    \/ SearchParamsEffect
    \/ Navigate
    \/ handleGenreChange
    \/ handleSortChange
    \/ handlePageChange
    \/ QuerySucceeds
    \/ QueryFails

SpecPage == InitPage /\ [][NextPage]_<< booksVars, pageVars >>


(***************************************************************************)
(* Vocabulary of the properties.                                            *)
(***************************************************************************)
CredentialsSet == env.SUPABASE_URL /\ env.SUPABASE_SERVICE_KEY /\ env.GOOGLE_BOOKS_API_KEY

CountOps(log, op) == Cardinality({ k \in 1..Len(log) : log[k].op = op })
FetchOps == CountOps(io, "fetch")
InsertOps == CountOps(io, "insert")

FailedFetch(ret) == ret.response.kind # "ok"
SomeFetchFailed(rets) == \E k \in 1..Len(rets) : FailedFetch(rets[k])
AllReturnsNonEmpty == \A k \in 1..Len(returns) : returns[k].result.value # <<>>

Printed(con, msg) == \E k \in 1..Len(con) : con[k].msg = msg
ReportedSuccess == Printed(console, "Successfully processed books!")
ReportedInsertError == Printed(console, "Error inserting data into Supabase:")

RECURSIVE Flatten(_)
Flatten(seqs) == IF seqs = <<>> THEN <<>> ELSE Head(seqs) \o Flatten(Tail(seqs))

\* The normalized records of each page fetched by this process, in fetch order.
NormalizedPages == [k \in 1..Len(returns) |-> transformBookData(returns[k].result.value)]

UniqueIsbn(rows) == \A r1, r2 \in rows : r1.isbn = r2.isbn => r1 = r2

\* The loop is over: main is at the insert or has returned.
LoopOver == CredentialsSet /\ pc \in {"inserting", "exited"}

(***************************************************************************)
(* C1: if any page fetch of a run fails, the run goes to Failed, the batch  *)
(* is never written, and the store is left as it was when the run started.  *)
(* Stated as written; the script does not satisfy it.                       *)
(***************************************************************************)
C1_FetchFailureAbortsRun ==
    SomeFetchFailed(returns) =>
        /\ writes = <<>>
        /\ store = store0
        /\ ~ReportedSuccess

(***************************************************************************)
(* C2: fetchPage returns an empty sequence only for a successful response   *)
(* with an empty result list; for an error status or a transport failure it *)
(* fails instead of returning.  Stated as written; fetchGoogleBooks does    *)
(* not satisfy it.                                                          *)
(***************************************************************************)
C2_EmptyOnlyOnExhaustion ==
    \A k \in 1..Len(returns) :
        LET r == returns[k] IN
        /\ FailedFetch(r) => r.result.threw
        /\ (~r.result.threw /\ r.result.value = <<>>)
               => (r.response.kind = "ok" /\ r.response.items = <<>>)

(***************************************************************************)
(* C3: a batch write answered by the store leaves every stored row as it    *)
(* was, is not aborted by a record whose identifier is already stored or    *)
(* repeated in the batch, and inserts every record with a new identifier.   *)
(* Stated as written; the insert of the script does not satisfy it.         *)
(***************************************************************************)
C3_ConflictsIgnored ==
    (pc = "exited" /\ writes # <<>> /\ error # "connection failed") =>
        LET batch == writes[1] IN
        /\ error = ""
        /\ store0 \subseteq store
        /\ UniqueIsbn(store)
        /\ \A k \in 1..Len(batch) :
               batch[k].isbn \notin Isbns(store0) => batch[k].isbn \in Isbns(store)

(***************************************************************************)
(* C4: a second run against the same source data, after a first run that    *)
(* ended in Done, leaves the store with the rows the first run left (no two *)
(* with one identifier) and ends in Done.  Stated as written; the script    *)
(* does not satisfy it.                                                     *)
(***************************************************************************)
C4_SecondRunIdempotent ==
    (/\ run >= 2 /\ pc = "exited" /\ CredentialsSet
     /\ ~SomeFetchFailed(returns) /\ error # "connection failed"
     /\ ~SomeFetchFailed(past[run - 1].returns) /\ past[run - 1].error = "") =>
        /\ store = store0
        /\ UniqueIsbn(store)
        /\ error = ""
        /\ ~ReportedInsertError

(***************************************************************************)
(* C5: a run writes the store at most once, by one insert of a whole batch; *)
(* when it does, every fetch of the run has returned before, nothing is     *)
(* requested after, and the batch is the concatenation, in fetch order, of  *)
(* the normalized records of every page fetched in the run.                 *)
(***************************************************************************)
C5_OneBatchWriteAfterLastFetch ==
    /\ Len(writes) <= 1
    /\ InsertOps = Len(writes)
    /\ writes # <<>> =>
        /\ pc \in {"inserting", "exited"}
        /\ io[Len(io)].op = "insert"
        /\ FetchOps = Len(returns)
        /\ writes[1] = Flatten(NormalizedPages)

C5_Witness ==
    /\ pc = "exited" /\ error = "" /\ Len(writes) = 1
    /\ Len(returns) = 2
    /\ NormalizedPages[1] # <<>> /\ NormalizedPages[2] # <<>>
    /\ Range(writes[1]) \subseteq store

(***************************************************************************)
(* C6: once a fetch has returned zero records, the run issues no further    *)
(* fetch, whatever the accumulated count, and goes on to persist what it    *)
(* has accumulated (an insert of exactly that array when it is not empty).  *)
(***************************************************************************)
C6_EmptyPageStopsFetching ==
    \A k \in 1..Len(returns) :
        returns[k].result.value = <<>> =>
            /\ k = Len(returns)
            /\ FetchOps = k
            /\ pc \in {"inserting", "exited"}
            /\ writes = IF allBooksToInsert = <<>> THEN <<>> ELSE <<allBooksToInsert>>

C6_Witness ==
    /\ pc = "exited" /\ Len(returns) = 2
    /\ returns[2].response = OkResponse(<<>>)
    /\ allBooksToInsert # <<>>
    /\ Len(allBooksToInsert) < totalBooksToFetch
    /\ writes = <<allBooksToInsert>>
    /\ FetchOps = 2

(***************************************************************************)
(* C7, as written: a run that persists without having seen an empty page    *)
(* has accumulated at least the target number of validated records.  The    *)
(* script does not satisfy it.                                              *)
(***************************************************************************)
C7_PersistsOnlyAtTargetCount ==
    (LoopOver /\ writes # <<>> /\ AllReturnsNonEmpty) =>
        Len(allBooksToInsert) >= totalBooksToFetch

(***************************************************************************)
(* C7, amended: the loop is bounded by the number of records requested, not *)
(* by the number accumulated.  A fetch is issued only while the pages       *)
(* requested before it cover fewer records than the target, and a run that  *)
(* has seen no empty page leaves the loop exactly when the pages fetched    *)
(* cover the target: with one page fewer they do not.                       *)
(***************************************************************************)
C7_LoopEndsWhenRequestsCoverTarget ==
    /\ pc = "fetching" => Len(returns) * booksPerPage < totalBooksToFetch
    /\ pc = "sleeping" => (Len(returns) - 1) * booksPerPage < totalBooksToFetch
    /\ (LoopOver /\ AllReturnsNonEmpty) =>
           /\ Len(returns) * booksPerPage >= totalBooksToFetch
           /\ (Len(returns) - 1) * booksPerPage < totalBooksToFetch

C7_Witness ==
    /\ pc = "inserting" /\ AllReturnsNonEmpty
    /\ Len(returns) = 2
    /\ Len(allBooksToInsert) < totalBooksToFetch

(***************************************************************************)
(* C8: when every fetch returns a non-empty page, a run with target 50      *)
(* makes exactly 2 fetches before it persists; for any target it makes the  *)
(* least number of fetches whose pages of 40 cover the target.              *)
(***************************************************************************)
LeastPages(target) ==
    CHOOSE n \in 1..target :
        /\ n * maxResults >= target
        /\ \A m \in 1..(n - 1) : m * maxResults < target

C8_TwoFetchesForFifty ==
    (LoopOver /\ AllReturnsNonEmpty) =>
        /\ FetchOps = LeastPages(totalBooksToFetch)
        /\ totalBooksToFetch = 50 => (FetchOps = 2 /\ Len(returns) = 2)
        /\ InsertOps = 1 => io[Len(io)].op = "insert"

C8_Witness ==
    /\ totalBooksToFetch = 50 /\ pc = "inserting"
    /\ \A k \in 1..Len(returns) : Len(returns[k].result.value) = MaxPageItems
    /\ FetchOps = 2
    /\ io[Len(io)].op = "insert"

(***************************************************************************)
(* C9: when the batch write fails with an error of the store, the error is  *)
(* reported, the process exits non-zero, success is never reported and the  *)
(* write was attempted exactly once.  Stated as written; the script does    *)
(* not satisfy it.                                                          *)
(***************************************************************************)
C9_WriteErrorFailsRun ==
    (pc = "exited" /\ error # "") =>
        /\ ReportedInsertError
        /\ exitCode # Some(0)
        /\ ~ReportedSuccess
        /\ InsertOps = 1

(***************************************************************************)
(* C10: a run whose batch write is answered by the store reports success,   *)
(* and the count it reports is the number of rows the run added to the      *)
(* store, also when records of the batch collide with stored identifiers.   *)
(* Stated as written; the script does not satisfy it.                       *)
(***************************************************************************)
C10_ReportsRowsWritten ==
    (pc = "exited" /\ writes # <<>> /\ error # "connection failed") =>
        \E k \in 1..Len(console) :
            console[k] = Say("Successfully processed books!", Cardinality(store \ store0))


(***************************************************************************)
(* Vocabulary of the properties of transformBookData.                       *)
(***************************************************************************)
\* The item given and, once the call has returned, the array it returned.
TheItem == rawBatch[1]
Returned == normalized # None
Output == normalized[1]

IdsOf(vol) == IF vol.industryIdentifiers = None THEN <<>> ELSE vol.industryIdentifiers[1]
IdsOfType(vol, t) == { k \in 1..Len(IdsOf(vol)) : IdsOf(vol)[k].type = t }

\* The minimum fields of the data model: a title, at least one author, at
\* least one identifier of either scheme.
HasMinimumFields(vol) ==
    /\ vol.title # ""
    /\ vol.authors # None /\ vol.authors[1] # <<>>
    /\ IdsOfType(vol, "ISBN_13") \cup IdsOfType(vol, "ISBN_10") # {}

(***************************************************************************)
(* C11: a record without a title, without any author (an empty author list *)
(* included) or without an identifier of either scheme gives no output      *)
(* record; every other record gives exactly one.  Stated as written;        *)
(* transformBookData does not satisfy it.                                   *)
(***************************************************************************)
C11_MinimumFieldsDecideOutput ==
    Returned => Len(Output) = IF HasMinimumFields(TheItem) THEN 1 ELSE 0

(***************************************************************************)
(* C12: for a record that passes validation, a publication date of length   *)
(* 4 gives the date followed by -01-01, of length 7 the date followed by    *)
(* -01, of length 10 or more its first 10 characters, and of any other      *)
(* length (absent or empty included) 1970-01-01.                            *)
(***************************************************************************)
C12_DateByLength ==
    (Returned /\ Len(Output) = 1) =>
        LET d == TheItem.publishedDate
            out == Output[1].publication_date
        IN
        /\ Len(d) = 4 => out = d \o <<"-","0","1","-","0","1">>
        /\ Len(d) = 7 => out = d \o <<"-","0","1">>
        /\ Len(d) >= 10 => out = [k \in 1..10 |-> d[k]]
        /\ Len(d) \notin {4, 7} /\ Len(d) < 10 =>
               out = <<"1","9","7","0","-","0","1","-","0","1">>

C12_Witness ==
    /\ Returned /\ Len(Output) = 1
    /\ Len(TheItem.publishedDate) = 10
    /\ Output[1].publication_date = TheItem.publishedDate

(***************************************************************************)
(* C13: for a record that passes validation, the identifier is that of an   *)
(* ISBN_13 entry whenever the list has one, wherever it stands, and that    *)
(* of an ISBN_10 entry only when the list has no ISBN_13 entry.             *)
(***************************************************************************)
C13_ThirteenPreferred ==
    (Returned /\ Len(Output) = 1) =>
        LET th == IdsOfType(TheItem, "ISBN_13")
            te == IdsOfType(TheItem, "ISBN_10")
        IN IF th # {}
           THEN \E k \in th : Output[1].isbn = IdsOf(TheItem)[k].identifier
           ELSE \E k \in te : Output[1].isbn = IdsOf(TheItem)[k].identifier

C13_Witness ==
    /\ Returned /\ Len(Output) = 1
    /\ Len(IdsOf(TheItem)) = 2
    /\ IdsOf(TheItem)[1].type = "ISBN_10" /\ IdsOf(TheItem)[2].type = "ISBN_13"
    /\ Output[1].isbn = IdsOf(TheItem)[2].identifier


(***************************************************************************)
(* C14: when any of the three credentials is absent, the process prints a   *)
(* message and exits non-zero, and it never issues a source fetch or a      *)
(* store write.                                                             *)
(***************************************************************************)
C14_MissingCredentialStopsAtStartup ==
    ~CredentialsSet =>
        /\ pc \in {"startup", "exited"}
        /\ io = <<>> /\ returns = <<>> /\ writes = <<>>
        /\ store = store0
        /\ pc = "exited" =>
               /\ exitCode = Some(1)
               /\ Printed(console, "Error: Missing API keys in .env file.")

C14_Witness ==
    /\ pc = "exited" /\ exitCode = Some(1)
    /\ env.SUPABASE_URL /\ env.SUPABASE_SERVICE_KEY /\ ~env.GOOGLE_BOOKS_API_KEY
    /\ io = <<>>

(***************************************************************************)
(* C15: every fetch of a run but the first is issued right after a timer of *)
(* the fixed interval that was started after the fetch before it returned;  *)
(* while the timer runs no fetch is in flight, and at most one fetch is in  *)
(* flight at any time.                                                      *)
(***************************************************************************)
C15_WaitBetweenFetches ==
    /\ \A k \in 2..Len(io) :
           io[k].op = "fetch" => io[k - 1] = Req("sleep", rateLimitDelay)
    /\ \A k \in 1..Len(io) :
           (io[k].op = "sleep" /\ k > 1) => io[k - 1].op = "fetch"
    /\ FetchOps - Len(returns) = IF pc = "fetching" THEN 1 ELSE 0
    /\ pc = "sleeping" => io[Len(io)].op = "sleep"

C15_Witness ==
    /\ pc = "fetching" /\ FetchOps = 2
    /\ io[Len(io) - 1] = Req("sleep", rateLimitDelay)
    /\ Len(returns) = 1

(***************************************************************************)
(* C16: when the accumulated batch is empty at the end of the loop, the run *)
(* returns without a write: the store is as it was and no write error       *)
(* arises.                                                                  *)
(***************************************************************************)
C16_EmptyBatchWritesNothing ==
    (LoopOver /\ allBooksToInsert = <<>>) =>
        /\ pc = "exited"
        /\ writes = <<>> /\ InsertOps = 0
        /\ store = store0
        /\ error = "" /\ ~ReportedInsertError

C16_Witness ==
    /\ LoopOver /\ allBooksToInsert = <<>>
    /\ Len(returns) >= 1 /\ AllReturnsNonEmpty
    /\ store = store0

(***************************************************************************)
(* C17: the k-th fetch of a run asks for offset 40 (k - 1): the first for   *)
(* offset 0, with nothing accumulated, and each later one for the offset    *)
(* before it plus the page size.                                            *)
(***************************************************************************)
FetchSeq == SelectSeq(io, LAMBDA r : r.op = "fetch")

C17_OffsetsAdvanceByPageSize ==
    /\ \A k \in 1..Len(FetchSeq) : FetchSeq[k].arg = maxResults * (k - 1)
    /\ (pc = "fetching" /\ Len(FetchSeq) = 1) => (allBooksToInsert = <<>> /\ i = 0)

C17_Witness ==
    /\ Len(FetchSeq) = 2
    /\ FetchSeq[1].arg = 0 /\ FetchSeq[2].arg = 40
    /\ pc = "inserting"

(***************************************************************************)
(* C18: when every fetch, wait and store write returns, every run reaches   *)
(* a terminal state, whatever the source answers, and a process that has    *)
(* exited stays exited.                                                     *)
(***************************************************************************)
C18_EveryRunTerminates ==
    /\ (pc # "exited") ~> (pc = "exited")
    /\ [][(pc = "exited" /\ run' = run) => pc' = "exited"]_vars

\* A run whose source never returns an empty page and whose records all
\* fail validation has ended.
C18_Witness ==
    /\ pc = "exited" /\ CredentialsSet
    /\ Len(returns) = 2 /\ AllReturnsNonEmpty
    /\ allBooksToInsert = <<>>


(***************************************************************************)
(* C19: in AuthProvider, once checkSession, signUp and every fetchProfile   *)
(* call have finished, the profile is set only if the user is set and it is *)
(* the profile of that user.  Stated as written; AuthProvider does not      *)
(* satisfy it.                                                              *)
(***************************************************************************)
AuthQuiescent ==
    /\ checkSession = "done"
    /\ signUpCall # "inflight"
    /\ profileFetches = {}

C19_ProfileIsOfCurrentUser ==
    (isMounted /\ AuthQuiescent) =>
        (profile # None => (user # None /\ profile[1].id = user[1]))

(***************************************************************************)
(* C20: in useBooks, when the arguments change while a query is awaited,    *)
(* then once every query has returned and none of the last ones failed,     *)
(* books and totalCount are the result for the arguments of the last        *)
(* render and loading is false.  Stated as written; useBooks does not       *)
(* satisfy it.                                                              *)
(***************************************************************************)
C20_BooksAreForLatestParams ==
    (hookParams # None /\ queries = {} /\ booksError = None) =>
        /\ books = booksWithRatings(runQuery(hookParams[1]).data)
        /\ totalCount = runQuery(hookParams[1]).count
        /\ booksLoading = FALSE

(***************************************************************************)
(* C21: in the Books page, whenever a step changes the selected genre or    *)
(* the sort order, by handleGenreChange, handleSortChange or the effect on  *)
(* the URL, the page requested after it is 1.  Stated as written; the       *)
(* effect on the URL does not satisfy it.                                   *)
(***************************************************************************)
C21_FilterChangeResetsPage == filterChanged => page = 1

====
